---- MODULE Spec2Model ----
(***************************************************************************)
(* Model of the file service of cloud-drop-portal                          *)
(* (src/src/services/fileService.ts) running against its two backends: the *)
(* storage bucket 'file_uploads' and the table 'file_metadata'.            *)
(*                                                                         *)
(* Every service call is an async function; each `await` of a backend call *)
(* is one atomic step of the calling process, so calls of different        *)
(* processes interleave exactly at the awaits.  Every backend call may     *)
(* fail (it returns an error object), which the model draws with \E ok.    *)
(* Times are milliseconds as returned by Date.now().                       *)
(*                                                                         *)
(* The React components that call the service (Dashboard, FileUploader,    *)
(* FileList, SharedFile) are modelled by their useState cells and their    *)
(* handlers, each handler split at its await.                              *)
(***************************************************************************)
EXTENDS Integers, Sequences, FiniteSets, TLC

VARIABLES now,      \* the clock read by Date.now() and by the backends
          meta,     \* rows of table file_metadata
          blobs,    \* objects of bucket file_uploads: [path, file]
          nextId,   \* next id the table assigns on insert
          calls,    \* number of service calls started so far
          pc,       \* per process: the await it is suspended at
          args,     \* per process: the arguments of the running call
          loc,      \* per process: the local constants of the running call
          ret,      \* per process: the outcome of the finished call
          log,      \* per process: the backend calls issued by the call
          dashboard,   \* useState of Dashboard: files, loadingFiles
          fileList,    \* useState of FileList: selectedFile, processingFileId, ...
          uploader,    \* useState of FileUploader and its running timers
          sharedFile   \* route parameter and useState of SharedFile

\* the state of the React components
uiVars == <<dashboard, fileList, uploader, sharedFile>>

vars == <<now, meta, blobs, nextId, calls, pc, args, loc, ret, log,
          dashboard, fileList, uploader, sharedFile>>

----------------------------------------------------------------------------
(* Bounds of the model *)

MaxCalls == 2      \* service calls started in one behaviour
MaxFiles == 2      \* rows ever inserted
MaxDays  == 1      \* whole days the clock advances

----------------------------------------------------------------------------
(* Values *)

\* null is the empty tuple, a present value v is <<v>>
Null == <<>>
Some(v) == <<v>>

maxSize == 50 * 1024 * 1024
MsPerDay == 86400000
SecPerDay == 24 * 60 * 60
DefaultUrlDays == 365

Procs == {"p1", "p2"}
\* the one process of the sequential specification
SeqProcs == {"p1"}
Users == {"u1", "u2"}
RandSuffixes == {"aaaaa", "bbbbb"}
\* the suffix Math.random() yields in the sequential specification
SeqSuffixes == {"aaaaa"}

\* a File of the browser: name (its dot-separated parts), MIME type, size
Files ==
  { [name |-> <<"a", "txt">>, type |-> "text/plain", size |-> maxSize],
    [name |-> <<"b", "tar", "gz">>, type |-> "application/gzip", size |-> maxSize + 1] }

\* the expiresIn arguments: null, and day counts
ExpiresInValues == {Null, Some(0), Some(-1), Some(1), Some(7)}

FileIds == 1..MaxFiles

----------------------------------------------------------------------------
(* Pure helpers of the service *)

\* JavaScript truthiness of `expiresIn` (number | null)
Truthy(expiresIn) == expiresIn # Null /\ expiresIn[1] # 0

\* the check against the 100 MB limit instead of the 50 MB one
SizeExceedsHundredMB(file) == file.size > 100 * 1024 * 1024

\* file.size > maxSize
SizeExceeds(file) == file.size > maxSize

\* file.name.split('.').pop()
FileExt(file) == file.name[Len(file.name)]

\* `${userId}/${Date.now()}-${random}.${fileExt}`
FilePath(userId, t, rnd, file) ==
  [user |-> userId, ts |-> t, rnd |-> rnd, ext |-> FileExt(file)]

\* expiresIn ? expiresIn * 24 * 60 * 60 : 365 * 24 * 60 * 60
SignedUrlLifetime(expiresIn) ==
  IF Truthy(expiresIn) THEN expiresIn[1] * SecPerDay ELSE DefaultUrlDays * SecPerDay

\* the date computed with the day length in seconds instead of milliseconds
ExpiresAtInSeconds(expiresIn, t) ==
  IF Truthy(expiresIn) THEN Some(t + expiresIn[1] * SecPerDay) ELSE Null

\* the date computed without the `expiresIn ?` test: null * 86400000 is 0
ExpiresAtUnguarded(expiresIn, t) ==
  IF expiresIn = Null THEN Some(t) ELSE Some(t + expiresIn[1] * MsPerDay)

\* expiresIn ? new Date(Date.now() + expiresIn * 86400000) : null
ExpiresAt(expiresIn, t) ==
  IF Truthy(expiresIn) THEN Some(t + expiresIn[1] * MsPerDay) ELSE Null

\* the signed URL the bucket issues: it names the object and carries the
\* second of issue and the lifetime asked for
SignedUrl(path, t, lifetime) ==
  [path |-> path, iat |-> t \div 1000, lifetime |-> lifetime]

\* the row -> FileMetadata mapping every function of the service applies
ToFileMetadata(row) ==
  [id |-> row.id, userId |-> row.user_id, originalName |-> row.original_name,
   fileType |-> row.file_type, size |-> row.size, uploadDate |-> row.upload_date,
   shareUrl |-> row.share_url,
   expiresAt |-> IF row.expires_at # Null THEN row.expires_at ELSE Null]

----------------------------------------------------------------------------
(* Outcomes of a call and the bookkeeping of a process *)

\* return v / return null / throw e / still running
Returned(v)  == [kind |-> "value", val |-> v]
ReturnedNull == [kind |-> "null", val |-> Null]
Thrown(e)    == [kind |-> "throw", val |-> e]
NoRet        == [kind |-> "none", val |-> Null]

Call(name, ok) == [call |-> name, ok |-> ok]

Idle(p) == pc[p] = "idle"

\* p resumes at `at` having issued backend call `c`
Goto(p, at, c, l) ==
  /\ pc' = [pc EXCEPT ![p] = at]
  /\ loc' = [loc EXCEPT ![p] = l]
  /\ log' = [log EXCEPT ![p] = Append(@, c)]
  /\ UNCHANGED ret

\* p's call finishes with outcome r having issued backend call `c`
Done(p, r, c) ==
  /\ pc' = [pc EXCEPT ![p] = "done"]
  /\ ret' = [ret EXCEPT ![p] = r]
  /\ log' = [log EXCEPT ![p] = Append(@, c)]
  /\ UNCHANGED loc

\* the components as mounted: the initial values of their useState hooks
UiInit ==
  /\ dashboard = [files |-> <<>>, loadingFiles |-> TRUE]
  /\ fileList = [selectedFile |-> Null, expirationDialogOpen |-> FALSE,
                 newExpiration |-> "never", processingFileId |-> Null]
  /\ uploader = [file |-> Null, progress |-> 0, isUploading |-> FALSE,
                 expiresIn |-> "never", intervals |-> 0]
  /\ sharedFile = [fileId |-> Null, file |-> Null, loading |-> TRUE, error |-> Null]

\* a new call starts on p
Begin(p, a) ==
  /\ Idle(p)
  /\ calls < MaxCalls
  /\ calls' = calls + 1
  /\ args' = [args EXCEPT ![p] = a]

Init ==
  /\ now = 0
  /\ meta = {}
  /\ blobs = {}
  /\ nextId = 1
  /\ calls = 0
  /\ pc = [p \in Procs |-> "idle"]
  /\ args = [p \in Procs |-> [op |-> "none"]]
  /\ loc = [p \in Procs |-> Null]
  /\ ret = [p \in Procs |-> NoRet]
  /\ log = [p \in Procs |-> <<>>]
  /\ UiInit

----------------------------------------------------------------------------
(* The backends *)

BlobPaths == {b.path : b \in blobs}

\* storage.from('file_uploads').upload(path, file, {upsert: false})
BlobsAfterUpload(path, file) == blobs \cup {[path |-> path, file |-> file]}

\* storage.from('file_uploads').remove([path])
BlobsAfterRemove(path) == {b \in blobs : b.path # path}

\* the filter without .eq('user_id', userId)
RowsOfAnyUser(fileId, userId) == {r \in meta : r.id = fileId}

\* .eq('id', fileId).eq('user_id', userId)
RowsOf(fileId, userId) == {r \in meta : r.id = fileId /\ r.user_id = userId}

\* .eq('id', fileId)
RowsById(fileId) == {r \in meta : r.id = fileId}

\* .eq('user_id', userId)
RowsOfUser(userId) == {r \in meta : r.user_id = userId}

\* the insert that stores the size in KB instead of bytes
NewRowSizeInKB(userId, path, file, url, expiresIn, t) ==
  [id |-> nextId, user_id |-> userId, storage_path |-> path,
   original_name |-> file.name, file_type |-> file.type, size |-> file.size \div 1024,
   upload_date |-> t, share_url |-> url, expires_at |-> ExpiresAt(expiresIn, t)]

\* the row written by .insert({...}); the table assigns id and upload_date
NewRow(userId, path, file, url, expiresIn, t) ==
  [id |-> nextId, user_id |-> userId, storage_path |-> path,
   original_name |-> file.name, file_type |-> file.type, size |-> file.size,
   upload_date |-> t, share_url |-> url, expires_at |-> ExpiresAt(expiresIn, t)]

\* the update that writes share_url only
UpdatedRowKeepingExpiry(row, url, expiresIn, t) ==
  [row EXCEPT !.share_url = url]

\* the update that also stamps upload_date
UpdatedRowRestamped(row, url, expiresIn, t) ==
  [row EXCEPT !.share_url = url, !.expires_at = ExpiresAt(expiresIn, t),
              !.upload_date = t]

\* the update that writes expires_at only
UpdatedRowKeepingUrl(row, url, expiresIn, t) ==
  [row EXCEPT !.expires_at = ExpiresAt(expiresIn, t)]

\* the row after .update({share_url, expires_at})
UpdatedRow(row, url, expiresIn, t) ==
  [row EXCEPT !.share_url = url, !.expires_at = ExpiresAt(expiresIn, t)]

\* .order('upload_date', {ascending: false}): the sequences of all rows of
\* S, newest first (rows of equal upload_date in either order)
Ordered(S) ==
  {s \in [1..Cardinality(S) -> S] :
     /\ \A i, j \in 1..Cardinality(S) : i # j => s[i] # s[j]
     /\ \A i, j \in 1..Cardinality(S) : i < j => s[i].upload_date >= s[j].upload_date}

----------------------------------------------------------------------------
(* uploadFile(file, userId, expiresIn) *)

UploadsInFlight == Cardinality({p \in Procs : pc[p] \in {"up_sign", "up_insert"}})

\* lines 20-39: the size check, the path, and storage.upload
UploadFile(p, file, userId, expiresIn, rnd) ==
  /\ Begin(p, [op |-> "uploadFile", file |-> file, userId |-> userId,
               expiresIn |-> expiresIn])
  /\ nextId + UploadsInFlight <= MaxFiles
  /\ UNCHANGED <<now, meta, nextId>>
  /\ IF SizeExceeds(file)
       THEN /\ pc' = [pc EXCEPT ![p] = "done"]
            /\ ret' = [ret EXCEPT ![p] = Thrown("File size exceeds the maximum limit of 50MB")]
            /\ UNCHANGED <<blobs, loc, log>>
       ELSE \E ok \in BOOLEAN :
              LET filePath == FilePath(userId, now, rnd, file) IN
              IF ok /\ filePath \notin BlobPaths
                THEN /\ blobs' = BlobsAfterUpload(filePath, file)
                     /\ Goto(p, "up_sign", Call("storage.upload", TRUE),
                             [filePath |-> filePath])
                ELSE /\ Done(p, Thrown("uploadError"), Call("storage.upload", FALSE))
                     /\ UNCHANGED blobs

\* lines 41-46: storage.createSignedUrl
UploadSign(p) ==
  /\ pc[p] = "up_sign"
  /\ UNCHANGED <<now, meta, blobs, nextId, calls, args>>
  /\ \E ok \in BOOLEAN :
       IF ok
         THEN Goto(p, "up_insert", Call("storage.createSignedUrl", TRUE),
                   [filePath |-> loc[p].filePath,
                    signedUrl |-> SignedUrl(loc[p].filePath, now,
                                            SignedUrlLifetime(args[p].expiresIn))])
         ELSE Done(p, Thrown("Failed to generate share URL"),
                   Call("storage.createSignedUrl", FALSE))

\* an insert that keeps the row although it reports an error
MetaAfterInsertAlways(ok, row) == meta \cup {row}

\* the table after the insert of lines 49-61
MetaAfterInsert(ok, row) == IF ok THEN meta \cup {row} ELSE meta

\* lines 48-78: insert(...).select().single() and the return
UploadInsert(p) ==
  /\ pc[p] = "up_insert"
  /\ UNCHANGED <<now, blobs, calls, args>>
  /\ \E ok \in BOOLEAN :
       LET row == NewRow(args[p].userId, loc[p].filePath, args[p].file,
                         loc[p].signedUrl, args[p].expiresIn, now) IN
       /\ meta' = MetaAfterInsert(ok, row)
       /\ IF ok
            THEN /\ nextId' = nextId + 1
                 /\ Done(p, Returned(ToFileMetadata(row)), Call("metadata.insert", TRUE))
            ELSE /\ UNCHANGED nextId
                 /\ Done(p, Thrown("metadataError"), Call("metadata.insert", FALSE))

----------------------------------------------------------------------------
(* getUserFiles(userId) *)

\* the query without .eq('user_id', userId)
ListedRowsOfAll(userId) == meta

\* the query with .gt('expires_at', now) added, which drops the null rows too
ListedRowsUnexpired(userId) ==
  {r \in RowsOfUser(userId) : r.expires_at # Null /\ r.expires_at[1] > now}

\* the rows the query of lines 82-86 selects
ListedRows(userId) == RowsOfUser(userId)

GetUserFiles(p, userId) ==
  /\ Begin(p, [op |-> "getUserFiles", userId |-> userId])
  /\ UNCHANGED <<now, meta, blobs, nextId>>
  /\ \E ok \in BOOLEAN :
       IF ok
         THEN \E data \in Ordered(ListedRows(userId)) :
                /\ Done(p, Returned([i \in DOMAIN data |-> ToFileMetadata(data[i])]),
                        Call("metadata.select", TRUE))
         ELSE Done(p, Thrown("error"), Call("metadata.select", FALSE))

----------------------------------------------------------------------------
(* deleteFile(fileId, userId) *)

\* deleteFile throwing when the row exists under another user_id
DeleteFetchTellingForeign(p, fileId, userId) ==
  /\ Begin(p, [op |-> "deleteFile", fileId |-> fileId, userId |-> userId])
  /\ UNCHANGED <<now, meta, blobs, nextId>>
  /\ \E ok \in BOOLEAN :
       IF ok /\ RowsOf(fileId, userId) # {}
         THEN \E fileData \in RowsOf(fileId, userId) :
                Goto(p, "del_remove", Call("metadata.select", TRUE),
                     [storage_path |-> fileData.storage_path])
         ELSE IF ok /\ RowsById(fileId) # {}
           THEN Done(p, Thrown("forbidden"), Call("metadata.select", TRUE))
           ELSE Done(p, Returned(FALSE), Call("metadata.select", FALSE))

\* lines 105-112: select('storage_path').eq(id).eq(user_id).single()
DeleteFetch(p, fileId, userId) ==
  /\ Begin(p, [op |-> "deleteFile", fileId |-> fileId, userId |-> userId])
  /\ UNCHANGED <<now, meta, blobs, nextId>>
  /\ \E ok \in BOOLEAN :
       IF ok /\ RowsOf(fileId, userId) # {}
         THEN \E fileData \in RowsOf(fileId, userId) :
                Goto(p, "del_remove", Call("metadata.select", TRUE),
                     [storage_path |-> fileData.storage_path])
         ELSE Done(p, Returned(FALSE), Call("metadata.select", FALSE))

\* deleteFile without `if (storageError) throw storageError`
DeleteRemoveIgnoringError(p) ==
  /\ pc[p] = "del_remove"
  /\ UNCHANGED <<now, meta, nextId, calls, args>>
  /\ \E ok \in BOOLEAN :
       /\ blobs' = IF ok THEN {b \in blobs : b.path # loc[p].storage_path} ELSE blobs
       /\ Goto(p, "del_meta", Call("storage.remove", ok), loc[p])

\* lines 114-119: storage.remove([storage_path])
DeleteRemove(p) ==
  /\ pc[p] = "del_remove"
  /\ UNCHANGED <<now, meta, nextId, calls, args>>
  /\ \E ok \in BOOLEAN :
       IF ok
         THEN /\ blobs' = BlobsAfterRemove(loc[p].storage_path)
              /\ Goto(p, "del_meta", Call("storage.remove", TRUE), loc[p])
         ELSE /\ UNCHANGED blobs
              /\ Done(p, Returned(FALSE), Call("storage.remove", FALSE))

\* a delete whose filter matches no row and reports no error
DeleteMetaKeepingRow(p) ==
  /\ pc[p] = "del_meta"
  /\ UNCHANGED <<now, blobs, nextId, calls, args>>
  /\ \E ok \in BOOLEAN :
       /\ UNCHANGED meta
       /\ Done(p, Returned(ok), Call("metadata.delete", ok))

\* lines 121-134: delete().eq(id).eq(user_id)
DeleteMeta(p) ==
  /\ pc[p] = "del_meta"
  /\ UNCHANGED <<now, blobs, nextId, calls, args>>
  /\ \E ok \in BOOLEAN :
       IF ok
         THEN /\ meta' = meta \ RowsOf(args[p].fileId, args[p].userId)
              /\ Done(p, Returned(TRUE), Call("metadata.delete", TRUE))
         ELSE /\ UNCHANGED meta
              /\ Done(p, Returned(FALSE), Call("metadata.delete", FALSE))

----------------------------------------------------------------------------
(* updateFileExpiration(fileId, userId, expiresIn) *)

\* the fetch without .eq('user_id', userId)
UpdateFetchById(p, fileId, userId, expiresIn) ==
  /\ Begin(p, [op |-> "updateFileExpiration", fileId |-> fileId,
               userId |-> userId, expiresIn |-> expiresIn])
  /\ UNCHANGED <<now, meta, blobs, nextId>>
  /\ \E ok \in BOOLEAN :
       IF ok /\ RowsById(fileId) # {}
         THEN \E fileData \in RowsById(fileId) :
                Goto(p, "upd_sign", Call("metadata.select", TRUE),
                     [fileData |-> fileData])
         ELSE Done(p, ReturnedNull, Call("metadata.select", FALSE))

\* lines 143-150: select('*').eq(id).eq(user_id).single()
UpdateFetch(p, fileId, userId, expiresIn) ==
  /\ Begin(p, [op |-> "updateFileExpiration", fileId |-> fileId,
               userId |-> userId, expiresIn |-> expiresIn])
  /\ UNCHANGED <<now, meta, blobs, nextId>>
  /\ \E ok \in BOOLEAN :
       IF ok /\ RowsOf(fileId, userId) # {}
         THEN \E fileData \in RowsOf(fileId, userId) :
                Goto(p, "upd_sign", Call("metadata.select", TRUE),
                     [fileData |-> fileData])
         ELSE Done(p, ReturnedNull, Call("metadata.select", FALSE))

\* lines 152-157: storage.createSignedUrl
UpdateSign(p) ==
  /\ pc[p] = "upd_sign"
  /\ UNCHANGED <<now, meta, blobs, nextId, calls, args>>
  /\ \E ok \in BOOLEAN :
       IF ok
         THEN Goto(p, "upd_write", Call("storage.createSignedUrl", TRUE),
                   [fileData |-> loc[p].fileData,
                    signedUrl |-> SignedUrl(loc[p].fileData.storage_path, now,
                                            SignedUrlLifetime(args[p].expiresIn))])
         ELSE Done(p, ReturnedNull, Call("storage.createSignedUrl", FALSE))

\* the write as an upsert of the row fetched at the start of the call
UpdateWriteUpserting(p) ==
  /\ pc[p] = "upd_write"
  /\ UNCHANGED <<now, blobs, nextId, calls, args>>
  /\ \E ok \in BOOLEAN :
       IF ok
         THEN LET updateData == UpdatedRow(loc[p].fileData, loc[p].signedUrl,
                                           args[p].expiresIn, now) IN
              /\ meta' = (meta \ RowsOf(args[p].fileId, args[p].userId))
                            \cup {updateData}
              /\ Done(p, Returned(ToFileMetadata(updateData)),
                      Call("metadata.update", TRUE))
         ELSE /\ UNCHANGED meta
              /\ Done(p, ReturnedNull, Call("metadata.update", FALSE))

\* lines 159-185: update({...}).eq(id).eq(user_id).select().single()
UpdateWrite(p) ==
  /\ pc[p] = "upd_write"
  /\ UNCHANGED <<now, blobs, nextId, calls, args>>
  /\ \E ok \in BOOLEAN :
       IF ok /\ RowsOf(args[p].fileId, args[p].userId) # {}
         THEN \E row \in RowsOf(args[p].fileId, args[p].userId) :
                LET updateData == UpdatedRow(row, loc[p].signedUrl,
                                             args[p].expiresIn, now) IN
                /\ meta' = (meta \ {row}) \cup {updateData}
                /\ Done(p, Returned(ToFileMetadata(updateData)),
                        Call("metadata.update", TRUE))
         ELSE /\ UNCHANGED meta
              /\ Done(p, ReturnedNull, Call("metadata.update", FALSE))

----------------------------------------------------------------------------
(* getFileByShareId(fileId) *)

\* the rows the lookup of lines 190-198 answers with
SharedRows(fileId) == RowsById(fileId)

GetFileByShareId(p, fileId) ==
  /\ Begin(p, [op |-> "getFileByShareId", fileId |-> fileId])
  /\ UNCHANGED <<now, meta, blobs, nextId>>
  /\ \E ok \in BOOLEAN :
       IF ok /\ SharedRows(fileId) # {}
         THEN \E fileData \in SharedRows(fileId) :
                Done(p, Returned(ToFileMetadata(fileData)), Call("metadata.select", TRUE))
         ELSE Done(p, ReturnedNull, Call("metadata.select", FALSE))

----------------------------------------------------------------------------
(* The caller takes the outcome; the clock *)

Finish(p) ==
  /\ pc[p] = "done"
  /\ pc' = [pc EXCEPT ![p] = "idle"]
  /\ args' = [args EXCEPT ![p] = [op |-> "none"]]
  /\ loc' = [loc EXCEPT ![p] = Null]
  /\ ret' = [ret EXCEPT ![p] = NoRet]
  /\ log' = [log EXCEPT ![p] = <<>>]
  /\ UNCHANGED <<now, meta, blobs, nextId, calls>>

TickDay ==
  /\ now \div MsPerDay < MaxDays
  /\ now' = now + MsPerDay
  /\ UNCHANGED <<meta, blobs, nextId, calls, pc, args, loc, ret, log>>

Next ==
  /\ \/ \E p \in SeqProcs, file \in Files, userId \in Users,
             expiresIn \in ExpiresInValues, rnd \in SeqSuffixes :
          UploadFile(p, file, userId, expiresIn, rnd)
     \/ \E p \in SeqProcs : UploadSign(p)
     \/ \E p \in SeqProcs : UploadInsert(p)
     \/ \E p \in SeqProcs, userId \in Users : GetUserFiles(p, userId)
     \/ \E p \in SeqProcs, fileId \in FileIds, userId \in Users : DeleteFetch(p, fileId, userId)
     \/ \E p \in SeqProcs : DeleteRemove(p)
     \/ \E p \in SeqProcs : DeleteMeta(p)
     \/ \E p \in SeqProcs, fileId \in FileIds, userId \in Users, expiresIn \in ExpiresInValues :
          UpdateFetch(p, fileId, userId, expiresIn)
     \/ \E p \in SeqProcs : UpdateSign(p)
     \/ \E p \in SeqProcs : UpdateWrite(p)
     \/ \E p \in SeqProcs, fileId \in FileIds : GetFileByShareId(p, fileId)
     \/ \E p \in SeqProcs : Finish(p)
     \/ TickDay
  /\ UNCHANGED uiVars

Spec == Init /\ [][Next]_vars

----------------------------------------------------------------------------
(* The service with one file already stored *)

\* the blob and the row a successful uploadFile(file, userId, expiresIn)
\* at time 0 leaves, the row under the first id
StoredPath(userId, file) == FilePath(userId, 0, "aaaaa", file)

StoredRow(userId, file, expiresIn) ==
  [id |-> 1, user_id |-> userId, storage_path |-> StoredPath(userId, file),
   original_name |-> file.name, file_type |-> file.type, size |-> file.size,
   upload_date |-> 0,
   share_url |-> SignedUrl(StoredPath(userId, file), 0, SignedUrlLifetime(expiresIn)),
   expires_at |-> ExpiresAt(expiresIn, 0)]

LifeInit ==
  /\ now = 0
  /\ \E userId \in Users, expiresIn \in {Null, Some(1)} :
       \E file \in {f \in Files : ~SizeExceeds(f)} :
         /\ meta = {StoredRow(userId, file, expiresIn)}
         /\ blobs = {[path |-> StoredPath(userId, file), file |-> file]}
  /\ nextId = 2
  /\ calls = 0
  /\ pc = [p \in Procs |-> "idle"]
  /\ args = [p \in Procs |-> [op |-> "none"]]
  /\ loc = [p \in Procs |-> Null]
  /\ ret = [p \in Procs |-> NoRet]
  /\ log = [p \in Procs |-> <<>>]
  /\ UiInit

LifeSpec == LifeInit /\ [][Next]_vars

----------------------------------------------------------------------------
(* Two callers at once: deleteFile and updateFileExpiration interleave at  *)
(* their awaits, starting from the one stored file                         *)

ConcExpiresIn == {Null, Some(1), Some(7)}

ConcNext ==
  /\ \/ \E p \in Procs, fileId \in FileIds, userId \in Users : DeleteFetch(p, fileId, userId)
     \/ \E p \in Procs : DeleteRemove(p)
     \/ \E p \in Procs : DeleteMeta(p)
     \/ \E p \in Procs, fileId \in FileIds, userId \in Users, expiresIn \in ConcExpiresIn :
          UpdateFetch(p, fileId, userId, expiresIn)
     \/ \E p \in Procs : UpdateSign(p)
     \/ \E p \in Procs : UpdateWrite(p)
     \/ \E p \in Procs : Finish(p)
     \/ TickDay
  /\ UNCHANGED uiVars

ConcSpec == LifeInit /\ [][ConcNext]_vars

----------------------------------------------------------------------------
(* formatFileSize(bytes) *)

Mega == 1048576

\* the number hi * 2^20 + lo with lo < 2^20, kept in two parts because 2^31
\* and above are beyond the integers TLC computes with
ByteCount(hi, lo) == [hi |-> hi, lo |-> lo]

\* the byte counts formatFileSize is applied to
ByteCounts ==
  {ByteCount(hi, lo) : hi \in {0, 1, 5, 100, 1023, 1024, 2048, 3000},
                       lo \in {0, 500, 1023, 1024, 1280, 2000, 2048, Mega - 1}}

\* x.toFixed(1) + unit, for x given in tenths
Fixed1(tenths, unit) == <<tenths \div 10, ".", tenths % 10, unit>>

\* the rendering that cuts the second decimal instead of rounding
formatFileSizeTruncating(bytes) ==
  IF bytes.hi = 0 /\ bytes.lo < 1024
    THEN <<bytes.lo, " bytes">>
  ELSE IF bytes.hi = 0
    THEN Fixed1((bytes.lo * 10) \div 1024, " KB")
  ELSE IF bytes.hi < 1024
    THEN Fixed1(bytes.hi * 10 + (bytes.lo * 10) \div Mega, " MB")
  ELSE Fixed1((bytes.hi * 10 + (bytes.lo * 10) \div Mega) \div 1024, " GB")

\* lines 216-226; toFixed(1) rounds the exact quotient to the nearest tenth,
\* a tie upwards: floor(10 * bytes / unit + 1/2)
formatFileSize(bytes) ==
  IF bytes.hi = 0 /\ bytes.lo < 1024
    THEN <<bytes.lo, " bytes">>
  ELSE IF bytes.hi = 0
    THEN Fixed1((bytes.lo * 20 + 1024) \div 2048, " KB")
  ELSE IF bytes.hi < 1024
    THEN Fixed1(bytes.hi * 10 + (bytes.lo * 20 + Mega) \div (2 * Mega), " MB")
  ELSE Fixed1((bytes.hi * 10 + 512 + (bytes.lo * 10) \div Mega) \div 1024, " GB")

\* a caller is about to render a size
FormatInit ==
  /\ now = 0
  /\ meta = {}
  /\ blobs = {}
  /\ nextId = 1
  /\ calls = 0
  /\ pc = [p \in Procs |-> IF p \in SeqProcs THEN "format" ELSE "idle"]
  /\ \E bytes \in ByteCounts :
       args = [p \in Procs |-> IF p \in SeqProcs
                                 THEN [op |-> "formatFileSize", bytes |-> bytes]
                                 ELSE [op |-> "none"]]
  /\ loc = [p \in Procs |-> Null]
  /\ ret = [p \in Procs |-> NoRet]
  /\ log = [p \in Procs |-> <<>>]
  /\ UiInit

FormatFileSize(p) ==
  /\ pc[p] = "format"
  /\ pc' = [pc EXCEPT ![p] = "done"]
  /\ ret' = [ret EXCEPT ![p] = Returned(formatFileSize(args[p].bytes))]
  /\ UNCHANGED <<now, meta, blobs, nextId, calls, args, loc, log>>

FormatNext == (\E p \in SeqProcs : FormatFileSize(p)) /\ UNCHANGED uiVars

FormatSpec == FormatInit /\ [][FormatNext]_vars

----------------------------------------------------------------------------
(* The Dashboard page of the signed-in user with its FileUploader: the     *)
(* page is mounted, its effect has called fetchFiles, and the user picks   *)
(* files and uploads them.  A handler that awaits a service call is        *)
(* suspended while the call's steps run and resumes in a step of its own.  *)

\* user.id of useAuth()
User == "u1"

\* the files the user drops or picks
PageFiles ==
  { [name |-> <<"a", "txt">>, type |-> "text/plain", size |-> maxSize],
    [name |-> <<"c", "png">>, type |-> "image/png", size |-> 1024],
    [name |-> <<"b", "tar", "gz">>, type |-> "application/gzip", size |-> maxSize + 1] }

\* the values of the expiration <Select> that fit the clock of the model
ExpirationChoices == {"never", "1", "7"}

\* parseInt(s, 10) of a <SelectItem> value
ParseInt(s) == IF s = "1" THEN 1 ELSE IF s = "7" THEN 7 ELSE IF s = "30" THEN 30 ELSE 90

\* expiresIn !== "never" ? parseInt(expiresIn, 10) : null
ExpiresInArg(s) == IF s = "never" THEN Null ELSE Some(ParseInt(s))

\* p's handler has resumed and returned
Return(p) ==
  /\ pc' = [pc EXCEPT ![p] = "idle"]
  /\ args' = [args EXCEPT ![p] = [op |-> "none"]]
  /\ loc' = [loc EXCEPT ![p] = Null]
  /\ ret' = [ret EXCEPT ![p] = NoRet]
  /\ log' = [log EXCEPT ![p] = <<>>]

\* Dashboard lines 15-20 and 30-34: the effect has run fetchFiles up to its
\* await; the query has not reached the table yet
PageInit ==
  /\ now = 0
  /\ meta = {}
  /\ blobs = {}
  /\ nextId = 1
  /\ calls = 1
  /\ pc = [p \in Procs |-> IF p = "p1" THEN "list_select" ELSE "idle"]
  /\ args = [p \in Procs |-> IF p = "p1" THEN [op |-> "getUserFiles", userId |-> User]
                                           ELSE [op |-> "none"]]
  /\ loc = [p \in Procs |-> Null]
  /\ ret = [p \in Procs |-> NoRet]
  /\ log = [p \in Procs |-> <<>>]
  /\ UiInit

\* getUserFiles lines 82-99 answering the pending fetchFiles
ListSelect(p) ==
  /\ pc[p] = "list_select"
  /\ UNCHANGED <<now, meta, blobs, nextId, calls, args, uiVars>>
  /\ \E ok \in BOOLEAN :
       IF ok
         THEN \E data \in Ordered(ListedRows(args[p].userId)) :
                Done(p, Returned([i \in DOMAIN data |-> ToFileMetadata(data[i])]),
                     Call("metadata.select", TRUE))
         ELSE Done(p, Thrown("error"), Call("metadata.select", FALSE))

\* Dashboard line 21: setFiles(userFiles), skipped when getUserFiles threw
FilesAfterFetch(files, r) == IF r.kind = "value" THEN r.val ELSE files

\* Dashboard lines 21-27: fetchFiles resumes after its await
FetchFilesResume(p) ==
  /\ pc[p] = "done"
  /\ args[p].op = "getUserFiles"
  /\ dashboard' = [files |-> FilesAfterFetch(dashboard.files, ret[p]),
                   loadingFiles |-> FALSE]
  /\ Return(p)
  /\ UNCHANGED <<now, meta, blobs, nextId, calls, fileList, uploader, sharedFile>>

\* FileUploader lines 40-64: a file is dropped or picked
ValidateAndSetFile(fileToValidate) ==
  /\ uploader' = IF fileToValidate.size > maxSize
                   THEN uploader
                   ELSE [uploader EXCEPT !.file = Some(fileToValidate)]
  /\ uploader' # uploader
  /\ UNCHANGED <<now, meta, blobs, nextId, calls, pc, args, loc, ret, log,
                 dashboard, fileList, sharedFile>>

\* FileUploader line 145: onValueChange={setExpiresIn}; the <Select> is
\* rendered while a file is selected and no upload runs
SetExpiresIn(value) ==
  /\ uploader.file # Null
  /\ ~uploader.isUploading
  /\ value # uploader.expiresIn
  /\ uploader' = [uploader EXCEPT !.expiresIn = value]
  /\ UNCHANGED <<now, meta, blobs, nextId, calls, pc, args, loc, ret, log,
                 dashboard, fileList, sharedFile>>

\* FileUploader lines 73-84: handleUpload up to its await; the button is
\* rendered while a file is selected and no upload runs
HandleUpload(p, rnd) ==
  /\ uploader.file # Null
  /\ ~uploader.isUploading
  /\ uploader' = [uploader EXCEPT !.isUploading = TRUE, !.progress = 0,
                                  !.intervals = @ + 1]
  /\ UploadFile(p, uploader.file[1], User, ExpiresInArg(uploader.expiresIn), rnd)
  /\ UNCHANGED <<dashboard, fileList, sharedFile>>

\* FileUploader lines 80-82: a tick of the 500 ms interval
ProgressTick ==
  /\ uploader.intervals > 0
  /\ uploader.progress < 90
  /\ uploader' = [uploader EXCEPT !.progress = IF @ + 10 < 90 THEN @ + 10 ELSE 90]
  /\ UNCHANGED <<now, meta, blobs, nextId, calls, pc, args, loc, ret, log,
                 dashboard, fileList, sharedFile>>

\* Dashboard lines 36-38: handleFileUploaded
FilesAfterUpload(files, file) == <<file>> \o files

\* FileUploader lines 84-105: handleUpload resumes after its await.  When
\* uploadFile returned, the handler stays with its 1 s timeout pending, and
\* loc keeps the selection that is on screen at this moment
HandleUploadResume(p) ==
  /\ pc[p] = "done"
  /\ args[p].op = "uploadFile"
  /\ IF ret[p].kind = "value"
       THEN /\ uploader' = [uploader EXCEPT !.intervals = @ - 1, !.progress = 100,
                                            !.isUploading = FALSE]
            /\ dashboard' = [dashboard EXCEPT
                               !.files = FilesAfterUpload(@, ret[p].val)]
            /\ pc' = [pc EXCEPT ![p] = "up_reset"]
            /\ loc' = [loc EXCEPT ![p] = [file |-> uploader.file,
                                          expiresIn |-> uploader.expiresIn]]
            /\ UNCHANGED <<args, ret, log>>
       ELSE /\ uploader' = [uploader EXCEPT !.isUploading = FALSE]
            /\ Return(p)
            /\ UNCHANGED dashboard
  /\ UNCHANGED <<now, meta, blobs, nextId, calls, fileList, sharedFile>>

\* FileUploader lines 92-99: the timeout set after a successful upload fires
ResetTimeout(p) ==
  /\ pc[p] = "up_reset"
  /\ uploader' = [uploader EXCEPT !.file = Null, !.progress = 0,
                                  !.expiresIn = "never"]
  /\ Return(p)
  /\ UNCHANGED <<now, meta, blobs, nextId, calls, dashboard, fileList, sharedFile>>

PageNext ==
  \/ \E p \in Procs : ListSelect(p)
  \/ \E p \in Procs : FetchFilesResume(p)
  \/ \E file \in PageFiles : ValidateAndSetFile(file)
  \/ \E value \in ExpirationChoices : SetExpiresIn(value)
  \/ \E p \in Procs, rnd \in SeqSuffixes : HandleUpload(p, rnd)
  \/ \E p \in Procs : UploadSign(p) /\ UNCHANGED uiVars
  \/ \E p \in Procs : UploadInsert(p) /\ UNCHANGED uiVars
  \/ ProgressTick
  \/ \E p \in Procs : HandleUploadResume(p)
  \/ \E p \in Procs : ResetTimeout(p)

PageSpec == PageInit /\ [][PageNext]_vars

----------------------------------------------------------------------------
(* The FileList of the Dashboard, showing two stored files of the user     *)

\* the second file, as a successful uploadFile at time 0 leaves it
SecondPath(userId, file) == FilePath(userId, 0, "bbbbb", file)

SecondRow(userId, file, expiresIn) ==
  [id |-> 2, user_id |-> userId, storage_path |-> SecondPath(userId, file),
   original_name |-> file.name, file_type |-> file.type, size |-> file.size,
   upload_date |-> 0,
   share_url |-> SignedUrl(SecondPath(userId, file), 0, SignedUrlLifetime(expiresIn)),
   expires_at |-> ExpiresAt(expiresIn, 0)]

\* Dashboard has fetched the two files and passes them to FileList
ListInit ==
  /\ now = 0
  /\ \E expiresIn \in {Null, Some(1)} :
       \E f1, f2 \in {f \in PageFiles : ~SizeExceeds(f)} :
         /\ f1 # f2
         /\ meta = {StoredRow(User, f1, expiresIn), SecondRow(User, f2, Null)}
         /\ blobs = {[path |-> StoredPath(User, f1), file |-> f1],
                     [path |-> SecondPath(User, f2), file |-> f2]}
         /\ dashboard = [files |-> <<ToFileMetadata(SecondRow(User, f2, Null)),
                                     ToFileMetadata(StoredRow(User, f1, expiresIn))>>,
                         loadingFiles |-> FALSE]
  /\ nextId = 3
  /\ calls = 0
  /\ pc = [p \in Procs |-> "idle"]
  /\ args = [p \in Procs |-> [op |-> "none"]]
  /\ loc = [p \in Procs |-> Null]
  /\ ret = [p \in Procs |-> NoRet]
  /\ log = [p \in Procs |-> <<>>]
  /\ fileList = [selectedFile |-> Null, expirationDialogOpen |-> FALSE,
                 newExpiration |-> "never", processingFileId |-> Null]
  /\ uploader = [file |-> Null, progress |-> 0, isUploading |-> FALSE,
                 expiresIn |-> "never", intervals |-> 0]
  /\ sharedFile = [fileId |-> Null, file |-> Null, loading |-> TRUE, error |-> Null]

\* the files FileList renders
Shown == {dashboard.files[i] : i \in DOMAIN dashboard.files}

\* Math.ceil((expiresAt - Date.now()) / (1000 * 60 * 60 * 24))
DaysFromNow(expiresAt) == -((now - expiresAt) \div MsPerDay)

\* FileList lines 92-102: the preselected expiration
CurrentExpiration(file) ==
  IF file.expiresAt = Null THEN "never"
  ELSE IF DaysFromNow(file.expiresAt[1]) <= 1 THEN "1"
  ELSE IF DaysFromNow(file.expiresAt[1]) <= 7 THEN "7"
  ELSE IF DaysFromNow(file.expiresAt[1]) <= 30 THEN "30"
  ELSE "90"

\* FileList lines 63-73: handleDeleteFile up to its await, the confirm
\* dialog accepted; the menu item is disabled for the file being processed
HandleDeleteFile(p, fileId) ==
  /\ \E file \in Shown : file.id = fileId
  /\ ~fileList.expirationDialogOpen
  /\ fileList.processingFileId # Some(fileId)
  /\ fileList' = [fileList EXCEPT !.processingFileId = Some(fileId)]
  /\ DeleteFetch(p, fileId, User)
  /\ UNCHANGED <<dashboard, uploader, sharedFile>>

\* Dashboard lines 40-42: handleFileDeleted
FilesAfterDelete(files, fileId) == SelectSeq(files, LAMBDA file : file.id # fileId)

\* FileList lines 73-86: handleDeleteFile resumes after its await
HandleDeleteResume(p) ==
  /\ pc[p] = "done"
  /\ args[p].op = "deleteFile"
  /\ dashboard' = IF ret[p] = Returned(TRUE)
                    THEN [dashboard EXCEPT !.files = FilesAfterDelete(@, args[p].fileId)]
                    ELSE dashboard
  /\ fileList' = [fileList EXCEPT !.processingFileId = Null]
  /\ Return(p)
  /\ UNCHANGED <<now, meta, blobs, nextId, calls, uploader, sharedFile>>

\* FileList lines 89-104: openExpirationDialog
OpenExpirationDialog(file) ==
  /\ file \in Shown
  /\ ~fileList.expirationDialogOpen
  /\ fileList' = [fileList EXCEPT !.selectedFile = Some(file),
                                  !.newExpiration = CurrentExpiration(file),
                                  !.expirationDialogOpen = TRUE]
  /\ UNCHANGED <<now, meta, blobs, nextId, calls, pc, args, loc, ret, log,
                 dashboard, uploader, sharedFile>>

\* FileList line 259: onValueChange={setNewExpiration}
SetNewExpiration(value) ==
  /\ fileList.expirationDialogOpen
  /\ value # fileList.newExpiration
  /\ fileList' = [fileList EXCEPT !.newExpiration = value]
  /\ UNCHANGED <<now, meta, blobs, nextId, calls, pc, args, loc, ret, log,
                 dashboard, uploader, sharedFile>>

\* FileList line 251: onOpenChange={setExpirationDialogOpen}, the dialog is
\* dismissed
CloseExpirationDialog ==
  /\ fileList.expirationDialogOpen
  /\ fileList' = [fileList EXCEPT !.expirationDialogOpen = FALSE]
  /\ UNCHANGED <<now, meta, blobs, nextId, calls, pc, args, loc, ret, log,
                 dashboard, uploader, sharedFile>>

\* FileList lines 106-118: handleUpdateExpiration up to its await; the
\* Update button is disabled for the file being processed
HandleUpdateExpiration(p) ==
  /\ fileList.expirationDialogOpen
  /\ fileList.selectedFile # Null
  /\ fileList.processingFileId # Some(fileList.selectedFile[1].id)
  /\ fileList' = [fileList EXCEPT !.processingFileId = Some(fileList.selectedFile[1].id)]
  /\ UpdateFetch(p, fileList.selectedFile[1].id, User, ExpiresInArg(fileList.newExpiration))
  /\ UNCHANGED <<dashboard, uploader, sharedFile>>

\* Dashboard lines 44-50: handleFileUpdated
FilesAfterUpdate(files, updatedFile) ==
  [i \in DOMAIN files |-> IF files[i].id = updatedFile.id THEN updatedFile ELSE files[i]]

\* FileList lines 118-132: handleUpdateExpiration resumes after its await
HandleUpdateResume(p) ==
  /\ pc[p] = "done"
  /\ args[p].op = "updateFileExpiration"
  /\ dashboard' = IF ret[p].kind = "value"
                    THEN [dashboard EXCEPT !.files = FilesAfterUpdate(@, ret[p].val)]
                    ELSE dashboard
  /\ fileList' = [fileList EXCEPT !.processingFileId = Null,
                                  !.expirationDialogOpen = FALSE]
  /\ Return(p)
  /\ UNCHANGED <<now, meta, blobs, nextId, calls, uploader, sharedFile>>

ListNext ==
  \/ \E p \in Procs, fileId \in FileIds : HandleDeleteFile(p, fileId)
  \/ \E p \in Procs : DeleteRemove(p) /\ UNCHANGED uiVars
  \/ \E p \in Procs : DeleteMeta(p) /\ UNCHANGED uiVars
  \/ \E p \in Procs : HandleDeleteResume(p)
  \/ \E file \in Shown : OpenExpirationDialog(file)
  \/ \E value \in ExpirationChoices : SetNewExpiration(value)
  \/ CloseExpirationDialog
  \/ \E p \in Procs : HandleUpdateExpiration(p)
  \/ \E p \in Procs : UpdateSign(p) /\ UNCHANGED uiVars
  \/ \E p \in Procs : UpdateWrite(p) /\ UNCHANGED uiVars
  \/ \E p \in Procs : HandleUpdateResume(p)

ListSpec == ListInit /\ [][ListNext]_vars

----------------------------------------------------------------------------
(* The SharedFile page, mounted for one route; the owner may delete or     *)
(* update the stored file meanwhile                                        *)

\* useParams(): the fileId of the route, or none
RouteFileIds == {Null} \cup {Some(fileId) : fileId \in FileIds}

\* the page is mounted and its effect is about to run fetchFile on p1
ShareInit ==
  /\ now = 0
  /\ \E userId \in Users, expiresIn \in {Null, Some(1)} :
       \E file \in {f \in Files : ~SizeExceeds(f)} :
         /\ meta = {StoredRow(userId, file, expiresIn)}
         /\ blobs = {[path |-> StoredPath(userId, file), file |-> file]}
  /\ nextId = 2
  /\ calls = 0
  /\ pc = [p \in Procs |-> IF p = "p1" THEN "effect" ELSE "idle"]
  /\ args = [p \in Procs |-> [op |-> "none"]]
  /\ loc = [p \in Procs |-> Null]
  /\ ret = [p \in Procs |-> NoRet]
  /\ log = [p \in Procs |-> <<>>]
  /\ dashboard = [files |-> <<>>, loadingFiles |-> TRUE]
  /\ fileList = [selectedFile |-> Null, expirationDialogOpen |-> FALSE,
                 newExpiration |-> "never", processingFileId |-> Null]
  /\ uploader = [file |-> Null, progress |-> 0, isUploading |-> FALSE,
                 expiresIn |-> "never", intervals |-> 0]
  /\ \E fileId \in RouteFileIds :
       sharedFile = [fileId |-> fileId, file |-> Null, loading |-> TRUE, error |-> Null]

\* SharedFile lines 17-25 (201-210): fetchFile up to its await
FetchFile(p) ==
  /\ pc[p] = "effect"
  /\ UNCHANGED <<now, meta, blobs, nextId, calls, loc, ret, log,
                 dashboard, fileList, uploader>>
  /\ IF sharedFile.fileId = Null
       THEN /\ sharedFile' = [sharedFile EXCEPT !.error = Some("No file ID provided"),
                                                !.loading = FALSE]
            /\ pc' = [pc EXCEPT ![p] = "idle"]
            /\ UNCHANGED args
       ELSE /\ pc' = [pc EXCEPT ![p] = "share_select"]
            /\ args' = [args EXCEPT ![p] = [op |-> "getFileByShareId",
                                            fileId |-> sharedFile.fileId[1]]]
            /\ UNCHANGED sharedFile

\* the lookup by id (SharedFile lines 25-29, getFileByShareId lines 190-213)
\* answers: a row, none, or, for the page's own query, a rejected await
ShareSelect(p) ==
  /\ pc[p] = "share_select"
  /\ UNCHANGED <<now, meta, blobs, nextId, calls, args, uiVars>>
  /\ \E outcome \in {"row", "error", "reject"} :
       IF outcome = "row" /\ SharedRows(args[p].fileId) # {}
         THEN \E fileData \in SharedRows(args[p].fileId) :
                Done(p, Returned(ToFileMetadata(fileData)), Call("metadata.select", TRUE))
       ELSE IF outcome = "reject"
         THEN Done(p, Thrown("err"), Call("metadata.select", FALSE))
       ELSE Done(p, ReturnedNull, Call("metadata.select", FALSE))

\* SharedFile lines 31-44 (211-215): setFile on a row
FileAfterLookup(r) == IF r.kind = "value" THEN Some(r.val) ELSE Null

\* the catch block without its setError
ErrorAfterLookupUncaught(r) ==
  IF r.kind = "null" THEN Some("This file doesn't exist or has expired") ELSE Null

\* SharedFile lines 31-33 and 45-47 (211-212, 216-218): setError
ErrorAfterLookup(r) ==
  IF r.kind = "null" THEN Some("This file doesn't exist or has expired")
  ELSE IF r.kind = "throw" THEN Some("Failed to load file. Please try again later.")
  ELSE Null

\* SharedFile lines 31-50 (211-221): fetchFile resumes after its await
FetchFileResume(p) ==
  /\ pc[p] = "done"
  /\ args[p].op = "getFileByShareId"
  /\ sharedFile' = [fileId |-> sharedFile.fileId,
                    file |-> IF ret[p].kind = "value" THEN FileAfterLookup(ret[p])
                                                      ELSE sharedFile.file,
                    error |-> IF ret[p].kind = "value" THEN sharedFile.error
                                                       ELSE ErrorAfterLookup(ret[p]),
                    loading |-> FALSE]
  /\ Return(p)
  /\ UNCHANGED <<now, meta, blobs, nextId, calls, dashboard, fileList, uploader>>

\* the owner's tab
Owner == "p2"

ShareNext ==
  \/ \E p \in Procs : FetchFile(p)
  \/ \E p \in Procs : ShareSelect(p)
  \/ \E p \in Procs : FetchFileResume(p)
  \/ \E fileId \in FileIds, userId \in Users :
       DeleteFetch(Owner, fileId, userId) /\ UNCHANGED uiVars
  \/ DeleteRemove(Owner) /\ UNCHANGED uiVars
  \/ DeleteMeta(Owner) /\ UNCHANGED uiVars
  \/ \E fileId \in FileIds, userId \in Users, expiresIn \in ConcExpiresIn :
       UpdateFetch(Owner, fileId, userId, expiresIn) /\ UNCHANGED uiVars
  \/ UpdateSign(Owner) /\ UNCHANGED uiVars
  \/ UpdateWrite(Owner) /\ UNCHANGED uiVars
  \/ Finish(Owner) /\ UNCHANGED uiVars
  \/ TickDay /\ UNCHANGED uiVars

ShareSpec == ShareInit /\ [][ShareNext]_vars

----------------------------------------------------------------------------
(* Vocabulary of the properties *)

\* p's call of `op` returns or throws in this step
Completes(p, op) == pc[p] # "done" /\ pc'[p] = "done" /\ args'[p].op = op

\* p's call of `op` has finished
Finished(p, op) == pc[p] = "done" /\ args[p].op = op

\* the names of the backend calls p's call has issued
Issued(p) == {log[p][i].call : i \in 1..Len(log[p])}

\* the storage path of p's uploadFile, once the blob is stored
HasFilePath(p) == "filePath" \in DOMAIN loc[p]

\* a row whose expires_at is non-null and at or before t
ExpiredAt(row, t) == row.expires_at # Null /\ row.expires_at[1] <= t

\* a row or FileMetadata that was written with an expiration still ahead
BornLive(uploaded, expires) == expires = Null \/ uploaded < expires[1]

\* a FileMetadata whose expiresAt is null or strictly after t
LiveAt(file, t) == file.expiresAt = Null \/ file.expiresAt[1] > t

----------------------------------------------------------------------------
(* C1: an upload larger than the maximum fails with the size error before  *)
(* any storage or table call is issued, and no stored row has a size above *)
(* the maximum.                                                            *)
C1_OversizeRejected ==
  /\ \A p \in Procs :
       (args[p].op = "uploadFile" /\ args[p].file.size > maxSize) =>
         /\ pc[p] = "done"
         /\ ret[p].kind = "throw"
         /\ log[p] = <<>>
  /\ \A r \in meta : r.size <= maxSize
  /\ \A b \in blobs : b.file.size <= maxSize

C1_Witness ==
  \E p \in Procs :
    /\ Finished(p, "uploadFile")
    /\ args[p].file.size > maxSize
    /\ ret[p].kind = "throw"

(* C2: getFileByShareId of a row whose expires_at is non-null and at or    *)
(* before the current time returns null, as for an id that has no row      *)
(* (stated for the rows whose expiration has passed since they were        *)
(* uploaded).                                                              *)
C2_ExpiredLooksMissing ==
  [][\A p \in Procs :
       (/\ Completes(p, "getFileByShareId")
        /\ \E r \in meta : /\ r.id = args'[p].fileId
                           /\ ExpiredAt(r, now)
                           /\ BornLive(r.upload_date, r.expires_at))
       => ret'[p] = ReturnedNull]_vars

(* C3: every FileMetadata getUserFiles returns has expiresAt null or       *)
(* strictly after the time of the call (stated for the records whose       *)
(* expiration was ahead when they were uploaded).                          *)
C3_ListExcludesExpired ==
  [][\A p \in Procs :
       (Completes(p, "getUserFiles") /\ ret'[p].kind = "value")
       => \A i \in DOMAIN ret'[p].val :
            BornLive(ret'[p].val[i].uploadDate, ret'[p].val[i].expiresAt)
            => LiveAt(ret'[p].val[i], now)]_vars

(* C4: once deleteFile has finished, the row it was called for and the     *)
(* blob of that row are both present or both removed.                      *)
C4_DeleteBothOrNeither ==
  \A p \in Procs :
    Finished(p, "deleteFile") =>
      /\ \A r \in RowsById(args[p].fileId) : r.storage_path \in BlobPaths
      /\ ("storage_path" \in DOMAIN loc[p] /\ loc[p].storage_path \in BlobPaths)
           => RowsById(args[p].fileId) # {}

(* C5: deleteFile issues the table delete only directly after a successful *)
(* storage.remove; a failed storage.remove is its last backend call and    *)
(* the call returns false.                                                 *)
C5_BlobRemovedFirst ==
  \A p \in Procs :
    args[p].op = "deleteFile" =>
      \A i \in 1..Len(log[p]) :
        /\ log[p][i].call = "metadata.delete"
             => (i > 1 /\ log[p][i-1] = Call("storage.remove", TRUE))
        /\ log[p][i] = Call("storage.remove", FALSE)
             => /\ i = Len(log[p])
                /\ pc[p] = "done"
                /\ ret[p] = Returned(FALSE)

C5_Witness ==
  \E p \in Procs :
    /\ Finished(p, "deleteFile")
    /\ log[p][Len(log[p])] = Call("storage.remove", FALSE)
    /\ RowsOf(args[p].fileId, args[p].userId) # {}

(* C6: deleteFile called by a user who does not own the row returns false  *)
(* in its first step and changes neither the table nor the bucket.         *)
C6_ForeignDeleteNoEffect ==
  [][\A p \in Procs :
       (/\ Idle(p)
        /\ args'[p].op = "deleteFile"
        /\ \E r \in meta : r.id = args'[p].fileId /\ r.user_id # args'[p].userId)
       => /\ pc'[p] = "done"
          /\ ret'[p] = Returned(FALSE)
          /\ "storage.remove" \notin Issued(p)'
          /\ "metadata.delete" \notin Issued(p)'
          /\ meta' = meta
          /\ blobs' = blobs]_vars

C6_Witness ==
  \E p \in Procs :
    /\ Finished(p, "deleteFile")
    /\ ret[p] = Returned(FALSE)
    /\ \E r \in meta : /\ r.id = args[p].fileId
                       /\ r.user_id # args[p].userId
                       /\ r.storage_path \in BlobPaths

(* C7: an uploadFile that throws, at whichever step, has inserted no row:  *)
(* the table is as it was before the failing step, no id was assigned, and *)
(* no earlier step of the call had written a row.                          *)
C7_FailedUploadNoRow ==
  [][\A p \in Procs :
       /\ (Completes(p, "uploadFile") /\ ret'[p].kind = "throw")
            => (meta' = meta /\ nextId' = nextId)
       /\ (args[p].op = "uploadFile" /\ pc[p] # "done")
            => Call("metadata.insert", TRUE) \notin {log[p][i] : i \in 1..Len(log[p])}]_vars

C7_Witness ==
  \E p \in Procs :
    /\ Finished(p, "uploadFile")
    /\ ret[p].kind = "throw"
    /\ "metadata.insert" \in Issued(p)
    /\ loc[p].filePath \in BlobPaths

(* C8: an uploadFile that throws after it has stored the blob has issued a *)
(* storage.remove for that blob.                                           *)
C8_CleanupAttempted ==
  \A p \in Procs :
    (Finished(p, "uploadFile") /\ ret[p].kind = "throw" /\ HasFilePath(p))
    => "storage.remove" \in Issued(p)

\* the signed URL of row r is for r's object, and its lifetime is the one
\* the service asks for with the expiresIn that gave r's expires_at
UrlMatchesExpiry(r) ==
  /\ r.share_url.path = r.storage_path
  /\ IF r.expires_at = Null
       THEN r.share_url.lifetime = DefaultUrlDays * SecPerDay
       ELSE LET written == r.expires_at[1] \div 1000 - r.share_url.lifetime
            IN  /\ r.share_url.iat <= written
                /\ written <= now \div 1000

(* C9: in every state the lifetime of a row's share_url matches the row's  *)
(* expires_at: both were written together by one call.                     *)
C9_UrlMatchesExpiry == \A r \in meta : UrlMatchesExpiry(r)

C9_Witness ==
  \E p \in Procs :
    /\ Finished(p, "updateFileExpiration")
    /\ ret[p].kind = "value"
    /\ \E r \in meta :
         /\ r.id = args[p].fileId
         /\ r.expires_at # loc[p].fileData.expires_at
         /\ r.share_url # loc[p].fileData.share_url

(* C10: updateFileExpiration with expiresIn = null on a row that holds a   *)
(* 7-day expiration stores expires_at = null and a share_url different     *)
(* from the row's previous one, and returns that row.                      *)
C10_SevenToNever ==
  [][\A p \in Procs :
       (/\ Completes(p, "updateFileExpiration")
        /\ ret'[p].kind = "value"
        /\ args[p].expiresIn = Null)
       => \A old \in RowsOf(args[p].fileId, args[p].userId) :
            (old.expires_at # Null /\ old.share_url.lifetime = 7 * SecPerDay)
            => \E new \in meta' :
                 /\ new.id = old.id
                 /\ new.expires_at = Null
                 /\ new.share_url # old.share_url
                 /\ ret'[p].val = ToFileMetadata(new)]_vars

C10_Witness ==
  \E p \in Procs :
    /\ Finished(p, "updateFileExpiration")
    /\ ret[p].kind = "value"
    /\ args[p].expiresIn = Null
    /\ loc[p].fileData.share_url.lifetime = 7 * SecPerDay
    /\ loc[p].fileData.expires_at # Null
    /\ ret[p].val.expiresAt = Null

----------------------------------------------------------------------------
\* the FileMetadata records a finished getUserFiles returned
Listed(r) == {r.val[i] : i \in DOMAIN r.val}

\* the day count of a truthy expiresIn
Days(expiresIn) == expiresIn[1]

(* C11: uploadFile with expiresIn = null stores and returns expiresAt =     *)
(* null, and every getUserFiles of the owner returns every row of the      *)
(* owner whose expires_at is null, whatever the clock shows.               *)
C11_NeverExpiresListed ==
  [][\A p \in Procs :
       /\ (/\ Completes(p, "uploadFile")
           /\ ret'[p].kind = "value"
           /\ args'[p].expiresIn = Null)
          => /\ ret'[p].val.expiresAt = Null
             /\ \E r \in meta' : r.expires_at = Null /\ ToFileMetadata(r) = ret'[p].val
       /\ (Completes(p, "getUserFiles") /\ ret'[p].kind = "value")
          => \A r \in meta :
               (r.user_id = args'[p].userId /\ r.expires_at = Null)
               => ToFileMetadata(r) \in Listed(ret'[p])]_vars

C11_Witness ==
  \E p \in Procs :
    /\ Finished(p, "getUserFiles")
    /\ ret[p].kind = "value"
    /\ \E f \in Listed(ret[p]) : f.expiresAt = Null /\ f.uploadDate < now

(* C12: for expiresIn = n > 0 the stored expiresAt is the time of the call *)
(* plus n days: for uploadFile the call time is the Date.now() of the      *)
(* storage path; for updateFileExpiration the call is not later than the   *)
(* issue of its signed URL.                                                *)
C12_ExpiresFromCallTime ==
  [][\A p \in Procs :
       /\ (/\ Completes(p, "uploadFile")
           /\ ret'[p].kind = "value"
           /\ Truthy(args'[p].expiresIn) /\ Days(args'[p].expiresIn) > 0)
          => ret'[p].val.expiresAt =
               Some(loc[p].filePath.ts + Days(args'[p].expiresIn) * MsPerDay)
       /\ (/\ Completes(p, "updateFileExpiration")
           /\ ret'[p].kind = "value"
           /\ Truthy(args'[p].expiresIn) /\ Days(args'[p].expiresIn) > 0)
          => ret'[p].val.expiresAt[1] - Days(args'[p].expiresIn) * MsPerDay
               <= loc[p].signedUrl.iat * 1000 + 999]_vars

(* C12 as amended: for expiresIn = n > 0 the stored expiresAt is the time  *)
(* at which the call issues its insert or update statement plus n days.    *)
C12_ExpiresFromWriteTime ==
  [][\A p \in Procs :
       \A op \in {"uploadFile", "updateFileExpiration"} :
         (/\ Completes(p, op)
          /\ ret'[p].kind = "value"
          /\ Truthy(args'[p].expiresIn) /\ Days(args'[p].expiresIn) > 0)
         => /\ ret'[p].val.expiresAt =
                 Some(now + Days(args'[p].expiresIn) * MsPerDay)
            /\ \E r \in meta' : /\ ToFileMetadata(r) = ret'[p].val
                                /\ r.expires_at = ret'[p].val.expiresAt]_vars

C12_Witness ==
  \E p \in Procs :
    /\ Finished(p, "uploadFile")
    /\ ret[p].kind = "value"
    /\ args[p].expiresIn = Some(7)
    /\ loc[p].filePath.ts < ret[p].val.uploadDate
    /\ ret[p].val.expiresAt = Some(ret[p].val.uploadDate + 7 * MsPerDay)

(* C13: a non-null expiresAt is strictly after uploadDate when uploadFile  *)
(* writes it and strictly after the current time when                      *)
(* updateFileExpiration writes it.                                         *)
C13_ExpiresInFuture ==
  [][\A p \in Procs :
       /\ (/\ Completes(p, "uploadFile")
           /\ ret'[p].kind = "value"
           /\ ret'[p].val.expiresAt # Null)
          => ret'[p].val.expiresAt[1] > ret'[p].val.uploadDate
       /\ (/\ Completes(p, "updateFileExpiration")
           /\ ret'[p].kind = "value"
           /\ ret'[p].val.expiresAt # Null)
          => ret'[p].val.expiresAt[1] > now]_vars

(* C14: uploadFile and updateFileExpiration called with an expiresIn that  *)
(* is present but zero or negative end at once with an error and issue no  *)
(* backend call.                                                           *)
C14_BadExpiresInRejected ==
  \A p \in Procs :
    (/\ args[p].op \in {"uploadFile", "updateFileExpiration"}
     /\ args[p].expiresIn # Null
     /\ Days(args[p].expiresIn) <= 0)
    => /\ pc[p] = "done"
       /\ ret[p].kind \in {"throw", "null"}
       /\ log[p] = <<>>

(* C15: an uploadFile of a file of at most maxSize bytes whose backend     *)
(* calls all succeed returns a FileMetadata whose size is the file's size, *)
(* and the table holds that record.                                        *)
C15_ValidUploadKeepsSize ==
  \A p \in Procs :
    (/\ Finished(p, "uploadFile")
     /\ args[p].file.size <= maxSize
     /\ \A i \in 1..Len(log[p]) : log[p][i].ok)
    => /\ ret[p].kind = "value"
       /\ ret[p].val.size = args[p].file.size
       /\ \E r \in meta : ToFileMetadata(r) = ret[p].val /\ r.size = args[p].file.size

C15_Witness ==
  \E p \in Procs :
    /\ Finished(p, "uploadFile")
    /\ ret[p].kind = "value"
    /\ ret[p].val.size = maxSize
    /\ Len(log[p]) = 3

(* C17: every record a getUserFiles(userId) returns belongs to userId,     *)
(* whatever uploads, updates and deletes of any user came before.          *)
C17_ListOnlyOwn ==
  \A p \in Procs :
    (Finished(p, "getUserFiles") /\ ret[p].kind = "value")
    => /\ \A f \in Listed(ret[p]) : f.userId = args[p].userId
       /\ \A r \in meta : r.user_id # args[p].userId => ToFileMetadata(r) \notin Listed(ret[p])

C17_Witness ==
  \E p \in Procs :
    /\ Finished(p, "getUserFiles")
    /\ ret[p].kind = "value"
    /\ \E r \in meta : r.user_id # args[p].userId
    /\ Listed(ret[p]) = {}

\* no row has this id and this user_id
NotOwned(fileId, userId) == \A r \in meta : ~(r.id = fileId /\ r.user_id = userId)

\* the negative outcome of deleteFile (false) and updateFileExpiration (null)
NotFoundOutcome(op) == IF op = "deleteFile" THEN Returned(FALSE) ELSE ReturnedNull

(* C16: updateFileExpiration for an id that has no row, or whose row       *)
(* belongs to another user, returns null, signs no URL, and leaves every   *)
(* row (its share_url and expires_at included) as it was.                  *)
C16_ForeignUpdateNoEffect ==
  [][\A p \in Procs :
       (/\ Idle(p)
        /\ args'[p].op = "updateFileExpiration"
        /\ NotOwned(args'[p].fileId, args'[p].userId))
       => /\ pc'[p] = "done"
          /\ ret'[p] = ReturnedNull
          /\ "storage.createSignedUrl" \notin Issued(p)'
          /\ "metadata.update" \notin Issued(p)'
          /\ \A r \in meta : \E r2 \in meta' :
               /\ r2.id = r.id
               /\ r2.share_url = r.share_url
               /\ r2.expires_at = r.expires_at
          /\ meta' = meta]_vars

C16_Witness ==
  \E p \in Procs :
    /\ Finished(p, "updateFileExpiration")
    /\ ret[p] = ReturnedNull
    /\ args[p].expiresIn = Some(7)
    /\ \E r \in meta : /\ r.id = args[p].fileId
                       /\ r.user_id # args[p].userId
                       /\ r.expires_at = Null
                       /\ r.share_url.lifetime = DefaultUrlDays * SecPerDay

(* C18: deleteFile and updateFileExpiration give one and the same outcome  *)
(* for an id that has no row and for an id whose row belongs to another    *)
(* user: the same return value after the same single backend call, with    *)
(* the table and the storage untouched.                                    *)
C18_MissingAndForeignAlike ==
  [][\A p \in Procs :
       (/\ Idle(p)
        /\ args'[p].op \in {"deleteFile", "updateFileExpiration"}
        /\ NotOwned(args'[p].fileId, args'[p].userId))
       => /\ pc'[p] = "done"
          /\ ret'[p] = NotFoundOutcome(args'[p].op)
          /\ log'[p] = <<Call("metadata.select", FALSE)>>
          /\ meta' = meta
          /\ blobs' = blobs]_vars

C18_Witness ==
  \E p \in Procs :
    /\ Finished(p, "deleteFile")
    /\ ret[p] = NotFoundOutcome("deleteFile")
    /\ \A r \in meta : r.id # args[p].fileId
    /\ \E r \in meta : r.user_id # args[p].userId

(* C20: a row changes only in the update step of updateFileExpiration, and *)
(* a row of the same id keeps its id, user_id, storage_path,               *)
(* original_name, file_type, size and upload_date in every step; ids are   *)
(* unique.                                                                 *)
C20_OnlyUrlAndExpiryChange ==
  [][/\ \A r \in meta : \A r2 \in meta' :
          r2.id = r.id =>
            /\ r2.user_id = r.user_id
            /\ r2.storage_path = r.storage_path
            /\ r2.original_name = r.original_name
            /\ r2.file_type = r.file_type
            /\ r2.size = r.size
            /\ r2.upload_date = r.upload_date
            /\ (r2 # r => \E p \in Procs :
                            /\ pc[p] = "upd_write"
                            /\ Completes(p, "updateFileExpiration")
                            /\ args[p].fileId = r.id)
     /\ \A r, r2 \in meta' : r.id = r2.id => r = r2]_vars

C20_Witness ==
  \E p \in Procs :
    /\ Finished(p, "updateFileExpiration")
    /\ ret[p].kind = "value"
    /\ ret[p].val.uploadDate < now
    /\ ret[p].val.expiresAt = Some(now + MsPerDay)
    /\ \E r \in meta : ToFileMetadata(r) = ret[p].val /\ r.share_url.iat * 1000 = now

\* an id the table has assigned and holds no row of
Gone(fileId) == fileId < nextId /\ \A r \in meta : r.id # fileId

(* C19: a deleteFile that returns true leaves no row of the id and no blob *)
(* at its path; an id whose row is gone never has a row again; and a later *)
(* getFileByShareId, updateFileExpiration or deleteFile of such an id      *)
(* returns the not-found outcome and changes nothing, and a later          *)
(* getUserFiles returns no record of it.                                   *)
C19_DeletedStaysDeleted ==
  [][/\ \A p \in Procs :
          (Completes(p, "deleteFile") /\ ret'[p] = Returned(TRUE))
          => /\ \A r \in meta' : r.id # args'[p].fileId
             /\ loc[p].storage_path \notin BlobPaths'
     /\ \A fileId \in FileIds \cup {MaxFiles + 1} :
          Gone(fileId) => \A r \in meta' : r.id # fileId
     /\ \A p \in Procs :
          (/\ Idle(p)
           /\ args'[p].op \in {"getFileByShareId", "updateFileExpiration", "deleteFile"}
           /\ Gone(args'[p].fileId))
          => /\ pc'[p] = "done"
             /\ ret'[p] = IF args'[p].op = "deleteFile" THEN Returned(FALSE) ELSE ReturnedNull
             /\ meta' = meta
             /\ blobs' = blobs
     /\ \A p \in Procs :
          (Completes(p, "getUserFiles") /\ ret'[p].kind = "value")
          => \A f \in Listed(ret'[p]) : ~Gone(f.id)]_vars

C19_Witness ==
  \E p \in Procs :
    /\ Finished(p, "getFileByShareId")
    /\ args[p].fileId = 1
    /\ ret[p] = ReturnedNull
    /\ Gone(1)
    /\ blobs = {}

(* C21: the signed URL a call of uploadFile or updateFileExpiration has    *)
(* asked for has a lifetime of expiresIn * 86400 seconds when expiresIn is *)
(* given (not null), and of 365 days when it is null.                      *)
C21_UrlLifetime ==
  \A p \in Procs :
    (/\ args[p].op \in {"uploadFile", "updateFileExpiration"}
     /\ "signedUrl" \in DOMAIN loc[p])
    => loc[p].signedUrl.lifetime =
         IF args[p].expiresIn # Null
           THEN Days(args[p].expiresIn) * SecPerDay
           ELSE DefaultUrlDays * SecPerDay

(* C22: no two rows share a storage_path, every blob path is a row's or an *)
(* upload in flight's own, and an uploadFile that stores its blob stores   *)
(* it under a path no blob had and leaves every other blob as it was.      *)
C22_StoragePathUnique ==
  [][/\ \A r1, r2 \in meta' : r1.storage_path = r2.storage_path => r1 = r2
     /\ \A p \in Procs :
          (/\ Idle(p)
           /\ args'[p].op = "uploadFile"
           /\ HasFilePath(p)')
          => /\ loc'[p].filePath \notin BlobPaths
             /\ \A r \in meta : r.storage_path # loc'[p].filePath
             /\ \A b \in blobs : b \in blobs']_vars

\* the distance of tenths/10 from (hi * 2^20 + lo) / 2^(10 * k), in units of
\* 2^(10 * k) / 10 / 2^20 (k = 2, 3) resp. 1/10240 (k = 1), is at most a half
Abs(x) == IF x < 0 THEN -x ELSE x

NearestTenth(bytes, tenths, unit) ==
  IF unit = " KB" THEN Abs(tenths * 1024 - bytes.lo * 10) <= 512
  ELSE IF unit = " MB"
    THEN Abs((tenths - bytes.hi * 10) * Mega - bytes.lo * 10) <= Mega \div 2
  ELSE Abs((tenths * 1024 - bytes.hi * 10) * Mega - bytes.lo * 10) <= 512 * Mega

\* the unit of a byte count with breakpoints at 1024, 1024^2 and 1024^3
UnitOf(bytes) ==
  IF bytes.hi = 0 /\ bytes.lo < 1024 THEN " bytes"
  ELSE IF bytes.hi = 0 THEN " KB"
  ELSE IF bytes.hi < 1024 THEN " MB"
  ELSE " GB"

(* C23: formatFileSize renders a count below 1024 as '<n> bytes' and every *)
(* other count in KB, MB or GB (breakpoints 1024, 1024^2, 1024^3) as the   *)
(* quotient to one decimal place, the tenth nearest to it; 500 gives       *)
(* "500 bytes", 2048 "2.0 KB", 5242880 "5.0 MB", 2147483648 "2.0 GB".      *)
C23_FormatFileSize ==
  \A p \in Procs :
    Finished(p, "formatFileSize") =>
      LET bytes == args[p].bytes
          text  == ret[p].val
      IN  /\ ret[p].kind = "value"
          /\ text[Len(text)] = UnitOf(bytes)
          /\ UnitOf(bytes) = " bytes" => text = <<bytes.lo, " bytes">>
          /\ UnitOf(bytes) # " bytes" =>
               /\ Len(text) = 4
               /\ text[2] = "."
               /\ text[3] \in 0..9
               /\ text[1] >= 0
               /\ NearestTenth(bytes, text[1] * 10 + text[3], text[4])
          /\ bytes = ByteCount(0, 500) => text = <<500, " bytes">>
          /\ bytes = ByteCount(0, 2048) => text = <<2, ".", 0, " KB">>
          /\ bytes = ByteCount(5, 0) => text = <<5, ".", 0, " MB">>
          /\ bytes = ByteCount(2048, 0) => text = <<2, ".", 0, " GB">>

C23_Witness ==
  \E p \in Procs :
    /\ Finished(p, "formatFileSize")
    /\ args[p].bytes = ByteCount(2048, 0)
    /\ ret[p] = Returned(<<2, ".", 0, " GB">>)

\* p and q are both inside updateFileExpiration of the same row
BothUpdating(p, q) ==
  /\ p # q
  /\ args[p].op = "updateFileExpiration"
  /\ args[q].op = "updateFileExpiration"
  /\ args[p].fileId = args[q].fileId
  /\ args[p].userId = args[q].userId

(* C24: whenever an updateFileExpiration writes a row, also while another  *)
(* updateFileExpiration of the same row is under way, the row gets the     *)
(* share_url this call had signed and the expires_at this call computes,   *)
(* in one step; and once two such calls have both returned a record, the   *)
(* stored share_url and expires_at are the pair one of them returned.      *)
C24_PairFromOneCall ==
  [][/\ \A p \in Procs :
          (/\ pc[p] = "upd_write"
           /\ Completes(p, "updateFileExpiration")
           /\ ret'[p].kind = "value")
          => \E r \in meta' :
               /\ r.id = args[p].fileId
               /\ r.share_url = loc[p].signedUrl
               /\ r.expires_at = ExpiresAt(args[p].expiresIn, now)
               /\ ToFileMetadata(r) = ret'[p].val
     /\ \A p, q \in Procs :
          (/\ BothUpdating(p, q)'
           /\ pc'[p] = "done" /\ ret'[p].kind = "value"
           /\ pc'[q] = "done" /\ ret'[q].kind = "value")
          => \A r \in meta' :
               r.id = args'[p].fileId =>
                 \E w \in {p, q} : /\ r.share_url = ret'[w].val.shareUrl
                                   /\ r.expires_at = ret'[w].val.expiresAt]_vars

C24_Witness ==
  \E p, q \in Procs :
    /\ BothUpdating(p, q)
    /\ pc[p] = "done" /\ ret[p].kind = "value"
    /\ pc[q] = "done" /\ ret[q].kind = "value"
    /\ loc[p].fileData = loc[q].fileData
    /\ ret[p].val.expiresAt # ret[q].val.expiresAt
    /\ ret[p].val.shareUrl # ret[q].val.shareUrl
    /\ \E r \in meta : ToFileMetadata(r) = ret[q].val

(* C25: with deleteFile and updateFileExpiration of one row interleaved, a *)
(* deleteFile that returns true leaves no row of the id, no step brings a  *)
(* row of a gone id back, and the update step of an updateFileExpiration   *)
(* that runs when the row is gone returns null and writes nothing.         *)
C25_UpdateNeverRecreates ==
  [][/\ \A p \in Procs :
          (Completes(p, "deleteFile") /\ ret'[p] = Returned(TRUE))
          => \A r \in meta' : r.id # args'[p].fileId
     /\ \A fileId \in FileIds :
          Gone(fileId) => \A r \in meta' : r.id # fileId
     /\ \A p \in Procs :
          (/\ pc[p] = "upd_write"
           /\ pc'[p] = "done"
           /\ Gone(args[p].fileId))
          => /\ ret'[p] = ReturnedNull
             /\ meta' = meta]_vars

C25_Witness ==
  \E p, q \in Procs :
    /\ Finished(p, "deleteFile")
    /\ ret[p] = Returned(TRUE)
    /\ Finished(q, "updateFileExpiration")
    /\ args[q].fileId = args[p].fileId
    /\ "metadata.update" \in Issued(q)
    /\ ret[q] = ReturnedNull
    /\ Gone(args[p].fileId)

(* C26: the files list of the Dashboard never holds two entries of one id, *)
(* however the answer to fetchFiles and the completions of uploads         *)
(* interleave.                                                             *)
C26_NoDuplicateEntries ==
  \A i, j \in 1..Len(dashboard.files) :
    dashboard.files[i].id = dashboard.files[j].id => i = j

\* handleUpload on p resumes after its await in this step
UploadReturns(p) == pc[p] = "done" /\ args[p].op = "uploadFile" /\ pc'[p] # "done"

(* C28: when handleUpload resumes after uploadFile, whether it returned or *)
(* threw, no interval is left running; and while isUploading is false no   *)
(* step changes progress alone, as a tick of the interval would.           *)
C28_TimerStopped ==
  [][/\ \A p \in Procs : UploadReturns(p) => uploader'.intervals = 0
     /\ (/\ ~uploader.isUploading
         /\ pc' = pc
         /\ uploader' = [uploader EXCEPT !.progress = uploader'.progress])
        => uploader'.progress = uploader.progress]_vars

(* C29: the reset that fires 1 s after a successful upload clears nothing  *)
(* selected since that upload finished: when it fires, the file and the    *)
(* expiration on screen are still those that were there when handleUpload  *)
(* resumed.                                                                *)
C29_ResetKeepsLaterChoice ==
  [][\A p \in Procs :
       (pc[p] = "up_reset" /\ pc'[p] # "up_reset")
       => /\ uploader.file = loc[p].file
          /\ uploader.expiresIn = loc[p].expiresIn]_vars

\* FileList's deleteFile or updateFileExpiration call of p has not yet been
\* taken up again by its handler
InFlight(p) ==
  /\ pc[p] # "idle"
  /\ args[p].op \in {"deleteFile", "updateFileExpiration"}

(* C27: while a deleteFile or updateFileExpiration call of FileList is in  *)
(* flight, processingFileId is the id of the file the call is for, also    *)
(* when an operation on another file starts or finishes meanwhile.         *)
C27_ProcessingIdHeld ==
  \A p \in Procs : InFlight(p) => fileList.processingFileId = Some(args[p].fileId)

\* fetchFile on p resumes after its await in this step
LookupReturns(p) ==
  pc[p] = "done" /\ args[p].op = "getFileByShareId" /\ pc'[p] # "done"

(* C30: the step in which fetchFile takes up the answer of its lookup, or  *)
(* finds no fileId, ends the loading state; from then on the page's state  *)
(* stays as it is, with exactly one of error and file set: no fileId, no   *)
(* row or a rejected lookup give error and no file, a row gives file and   *)
(* no error.  Before that neither is set.                                  *)
C30_ErrorXorFile ==
  [][/\ \A p \in Procs :
          LookupReturns(p) =>
            /\ ~sharedFile'.loading
            /\ ret[p].kind = "value"
                 => sharedFile'.file = Some(ret[p].val) /\ sharedFile'.error = Null
            /\ ret[p].kind # "value"
                 => sharedFile'.file = Null /\ sharedFile'.error # Null
     /\ \A p \in Procs :
          (pc[p] = "effect" /\ pc'[p] # "effect" /\ sharedFile.fileId = Null)
          => /\ ~sharedFile'.loading
             /\ sharedFile'.file = Null
             /\ sharedFile'.error # Null
             /\ pc'[p] = "idle"
     /\ ~sharedFile.loading => sharedFile' = sharedFile
     /\ sharedFile'.loading => sharedFile'.file = Null /\ sharedFile'.error = Null
     /\ ~sharedFile'.loading => (sharedFile'.file = Null) # (sharedFile'.error = Null)]_vars

C30_Witness ==
  /\ ~sharedFile.loading
  /\ sharedFile.fileId = Some(1)
  /\ sharedFile.error # Null
  /\ sharedFile.file = Null
  /\ \A r \in meta : r.id # 1
  /\ \A p \in Procs : Idle(p)

====
